---- MODULE Spec2Model ----
(***************************************************************************)
(* State-machine model of mcp-aecdm-hybrid/server.ts: the session store,   *)
(* the model context, the external viewer bridge (HTTP + WebSocket) and    *)
(* the tool handlers that read and write them.                             *)
(*                                                                         *)
(* One action is one run-to-completion step of the Node event loop: the    *)
(* synchronous part of a handler up to its next await on an external       *)
(* event, or one event callback (socket connection, socket close,          *)
(* listening, timer). When a step ends the process (uncaught exception,    *)
(* unhandled rejection) only `crashed` and the assignments made before     *)
(* the fault are recorded; a dead process takes no further step.           *)
(***************************************************************************)
EXTENDS Integers, Sequences, FiniteSets, TLC

\* ------------------------------------------------------------------ bounds
MaxSocks == 2     \* browser tabs (WebSocket clients) that ever connect
MaxMsgs  == 2     \* viewer messages built over a run

\* entries of the errors list of an upstream answer
MaxErrors == 2
\* HTTP requests sent to the AECDM endpoint over a run
MaxRequests == 2

\* length argument of generateCodeVerifier
MaxVerifierLength == 2

Socks    == 1..MaxSocks

\* ------------------------------------------------------- JavaScript values
Null      == "<null>"
Undefined == "<undefined>"
EmptyStr  == ""

\* A null test in the place of a truthiness test: `v !== null`.
NotNull(v) == v # Null

\* JavaScript truthiness of a string | null | undefined value, as used by
\* `!accessToken`, `!currentElementGroupId`, `x || y`.
Truthy(v) == v \notin {Null, Undefined, EmptyStr}

\* `a || b`
OrElse(a, b) == IF Truthy(a) THEN a ELSE b

\* `let wsConnection: WebSocket | null`, `let pendingMessage: string | null`
NoSock      == 0
NullMessage == [type |-> "null"]

\* ------------------------------------------------------------ input sets
\* render-model arguments <<fileVersionUrn, elementGroupId, elementGroupName>>:
\* z.string(), z.string(), z.string().optional(). Strings may be empty and
\* the name may be omitted (undefined).
RenderArgs == { <<"urn:a", "eg1", "Tower">>,
                <<"urn:b", "eg2", Undefined>>,
                <<"urn:a", EmptyStr, "Annex">> }
IdLists   == {<<>>, <<"x1">>}                    \* args.externalIds : z.array(z.string())
Verifiers == {"verifier-A", "verifier-B"}        \* values of generateCodeVerifier(64)
Ports     == {5001, 8080, 8081}                  \* OAuth callback, VIEWER_HTTP_PORT, VIEWER_WS_PORT

\* What the redirect request to the callback listener carries: the values of
\* url.searchParams.get("code") and .get("error") (null when absent).
CallbackRequests == { [code |-> "c1", error |-> Null],
                      [code |-> Null, error |-> "access_denied"],
                      [code |-> "c1", error |-> "access_denied"],
                      [code |-> Null, error |-> Null] }

\* What the token endpoint answers: the fetch fails, a non-2xx status, a 2xx
\* status with a body that is not JSON, a 2xx status with a JSON object (which
\* `response.json() as Promise<TokenResponse>` returns unvalidated).
TokenResponses == { [kind |-> "network-error"],
                    [kind |-> "http-error"],
                    [kind |-> "bad-json"],
                    [kind |-> "json", access_token |-> "tokA", refresh_token |-> "refA"],
                    [kind |-> "json", access_token |-> Undefined, refresh_token |-> Undefined] }

\* ------------------------------------------------- GraphQL-backed tools
GetTools == {"get-hubs", "get-projects", "get-element-groups", "get-elements-by-category"}

\* execute-query's `variables` argument, z.string().optional(): omitted,
\* a JSON text, a text that is not JSON.
VariablesArgs == {Undefined, "{}", "{bad"}

\* JSON.parse(args.variables) throws
JsonParseThrows(text) == text = "{bad"

\* The calls: <<tool, variables>> (only execute-query takes `variables`).
GqlCalls == {<<t, Undefined>> : t \in GetTools}
            \cup {<<"execute-query", v>> : v \in VariablesArgs}

\* JSON values of the `data` member: absent, null, an object.
JsUndefined == [t |-> "undefined"]
JsNull      == [t |-> "null"]
SomeData    == [t |-> "object", hubs |-> "results"]
TruthyValue(v) == v.t \notin {"undefined", "null"}

\* GraphQL errors: message and extensions?.correlationId (undefined if absent)
GqlErrors == {[message |-> "m1", correlationId |-> "cid-1"],
              [message |-> "m2", correlationId |-> Undefined]}
ErrorLists == UNION {[1..n -> GqlErrors] : n \in 0..MaxErrors}

\* What the AECDM endpoint answers: the fetch fails, a non-2xx status, a 2xx
\* status with a body that is not JSON, a 2xx status with a JSON object whose
\* `data` and `errors` members may each be there or not.
UpstreamResponses ==
    {[kind |-> "network-error"], [kind |-> "http-error"], [kind |-> "bad-json"]}
    \cup {[kind |-> "json", data |-> d, errorsPresent |-> TRUE, errors |-> e] :
             d \in {JsUndefined, JsNull, SomeData}, e \in ErrorLists}
    \cup {[kind |-> "json", data |-> d, errorsPresent |-> FALSE, errors |-> <<>>] :
             d \in {JsUndefined, JsNull, SomeData}}

VARIABLES
    accessToken, refreshToken, codeVerifier,
    currentElementGroupId, currentElementGroupName, currentFileVersionUrn,
    viewerServerRunning, wsConnection, pendingMessage,
    port,          \* per local port: "own" once a listener of this process holds it, else "free"
    readyState,    \* per socket: "NEW" (not yet connected), "OPEN", "CLOSING", or
                   \* "CLOSED" (its "close" event has been emitted)
    sent,          \* log of ws.send calls: <<[sock, msg], ...>>
    dropped,       \* history: numbers of the messages overwritten in pendingMessage
    nextSeq,       \* sequence number of the next viewer message built
    rm,            \* the render-model invocation suspended at an await, if any
    au,            \* the latest authenticate attempt: handler position, listener, promise, timer
    crashed,       \* the process died of an uncaught exception / unhandled rejection
    authReturnedTrue,  \* history: some authenticate call has returned {authenticated: true}
    ret,           \* the payload most recently returned to the host, with the tool's name
    proc,          \* the process: its phase, CLIENT_ID, exit status and error channel
    gq,            \* the GraphQL-backed tool call suspended at its fetch, if any
    upstream,      \* history: number of HTTP requests sent to the AECDM endpoint
    pkce           \* a call of generateCodeVerifier: its length, random bytes and result

ctxVars    == <<currentElementGroupId, currentElementGroupName, currentFileVersionUrn>>
tokVars    == <<accessToken, refreshToken, codeVerifier>>
viewerVars == <<viewerServerRunning, wsConnection, pendingMessage>>
sockVars   == <<readyState>>
gqlVars    == <<gq, upstream>>
vars == <<accessToken, refreshToken, codeVerifier,
          currentElementGroupId, currentElementGroupName, currentFileVersionUrn,
          viewerServerRunning, wsConnection, pendingMessage,
          port, readyState, sent, dropped, nextSeq, rm, au, crashed,
          authReturnedTrue, ret, proc, gq, upstream, pkce>>

\* ------------------------------------------------------------- payloads
Payload(tool, p) == [tool |-> tool, payload |-> p]

NotAuthenticatedError == [error |-> "Not authenticated"]
ViewerNotConnectedError == [error |-> "Viewer is not connected. Please render a model first."]
NoModelLoadedError ==
    [error |-> "No model is currently loaded. Use browse-aecdm to select and load a model first."]

IdleCall == [pc |-> "idle"]
IdleQuery == [pc |-> "idle"]
IdleVerifierCall == [pc |-> "idle"]

\* The process once the module has been evaluated with CLIENT_ID set and
\* main() has connected the stdio transport.
ServingProcess ==
    [phase |-> "serving", clientId |-> "client-id", stdio |-> "connected",
     stderr |-> <<"Starting AECDM MCP Hybrid server (stdio transport)...",
                  "CLIENT_ID: client-i...",
                  "AECDM MCP Hybrid server connected via stdio">>]

\* process.env.CLIENT_ID after dotenv: not set, set to "", set.
ClientIds == {Undefined, EmptyStr, "client-id"}

\* The process before the module's top-level code has run: nothing written
\* to stderr, the stdio transport not connected. `stderr` holds the lines
\* of the start-up code only.
LoadingProcess(clientId) ==
    [phase |-> "loading", clientId |-> clientId, stdio |-> "unconnected", stderr |-> <<>>]

\* Tool handlers and event callbacks run in a serving process that has not
\* died; none of them writes the process record.
Serving == proc.phase = "serving" /\ ~crashed

\* An authenticate attempt: the handler's position, the callback listener
\* ("none", "listening", "closed"), the promise of waitForOAuthCallback
\* ("pending", or its settlement) and the 5-minute timer.
IdleAttempt == [pc |-> "unused", server |-> "none", promise |-> [state |-> "none"],
                timer |-> "none"]

Constructed ==
    /\ accessToken = Null /\ refreshToken = Null /\ codeVerifier = Null
    /\ currentElementGroupId = Null
    /\ currentElementGroupName = Null
    /\ currentFileVersionUrn = Null
    /\ viewerServerRunning = FALSE
    /\ wsConnection = NoSock
    /\ pendingMessage = NullMessage
    /\ port = [p \in Ports |-> "free"]
    /\ readyState = [s \in Socks |-> "NEW"]
    /\ sent = <<>>
    /\ dropped = {}
    /\ nextSeq = 1
    /\ rm = IdleCall
    /\ au = IdleAttempt
    /\ crashed = FALSE
    /\ authReturnedTrue = FALSE
    /\ ret = Payload("none", [none |-> TRUE])
    /\ gq = IdleQuery
    /\ upstream = 0

Init == Constructed /\ proc = ServingProcess /\ pkce = IdleVerifierCall

\* The process as the host spawns it, CLIENT_ID set or not.
BootInit ==
    /\ Constructed
    /\ pkce = IdleVerifierCall
    /\ \E c \in ClientIds : proc = LoadingProcess(c)

\* ------------------------------------------------------------- start-up
\* A start-up that goes on to main() without looking at CLIENT_ID.
StartupWithoutCheck ==
    /\ proc.phase = "loading"
    /\ proc' = [ServingProcess EXCEPT !.clientId = proc.clientId]
    /\ UNCHANGED <<tokVars, ctxVars, viewerVars, port, sockVars, sent, dropped, nextSeq,
                   rm, au, crashed, authReturnedTrue, ret, gqlVars, pkce>>

\* Evaluation of the module and main(): without CLIENT_ID one line on
\* stderr and process.exit(1); otherwise the tools are registered and the
\* stdio transport is connected.
Startup ==
    /\ proc.phase = "loading"
    /\ IF ~Truthy(proc.clientId)
       THEN proc' = [phase |-> "exited", clientId |-> proc.clientId,
                     stdio |-> "unconnected", exitCode |-> 1,
                     stderr |-> <<"ERROR: CLIENT_ID environment variable is required">>]
       ELSE proc' = ServingProcess
    /\ UNCHANGED <<tokVars, ctxVars, viewerVars, port, sockVars, sent, dropped, nextSeq,
                   rm, au, crashed, authReturnedTrue, ret, gqlVars, pkce>>

\* ------------------------------------------------------------- messages
\* Buffer.from(urn).toString("base64") made URL-safe and unpadded: an
\* injective encoding, kept symbolic.
Base64Url(urn) == <<"base64url", urn>>

\* JSON.stringify({type: "load-model", urn, accessToken}); seq is the number
\* of the invocation that built it (two invocations with equal arguments
\* build equal strings; the number tells the two submissions apart).
LoadModelMessage(urn, tok, seq) ==
    [type |-> "load-model", urn |-> Base64Url(urn), accessToken |-> tok, seq |-> seq]

\* JSON.stringify({type: "highlight", externalIds})
HighlightMessage(ids, seq) ==
    [type |-> "highlight", externalIds |-> ids, seq |-> seq]

\* --------------------------------------------------------- viewer bridge
\* `pendingMessage = message`: whatever was pending is overwritten.
QueueMessage(message) ==
    /\ pendingMessage' = message
    /\ dropped' = IF pendingMessage = NullMessage THEN dropped
                  ELSE dropped \cup {pendingMessage.seq}

\* A sendToViewer that keeps the message already pending and discards the
\* new one (first write wins).
SendToViewerKeepsFirst(message) ==
    IF wsConnection # NoSock /\ readyState[wsConnection] = "OPEN"
    THEN /\ sent' = Append(sent, [sock |-> wsConnection, msg |-> message])
         /\ UNCHANGED <<pendingMessage, dropped>>
    ELSE IF pendingMessage = NullMessage
    THEN /\ QueueMessage(message)
         /\ UNCHANGED sent
    ELSE /\ dropped' = dropped \cup {message.seq}
         /\ UNCHANGED <<pendingMessage, sent>>

\* A sendToViewer that falls back to any socket still open when the active
\* one is gone.
SendToViewerAnyOpen(message) ==
    IF wsConnection # NoSock /\ readyState[wsConnection] = "OPEN"
    THEN /\ sent' = Append(sent, [sock |-> wsConnection, msg |-> message])
         /\ UNCHANGED <<pendingMessage, dropped>>
    ELSE IF \E s \in Socks : readyState[s] = "OPEN"
    THEN /\ sent' = Append(sent, [sock |-> CHOOSE s \in Socks : readyState[s] = "OPEN",
                                  msg |-> message])
         /\ UNCHANGED <<pendingMessage, dropped>>
    ELSE /\ QueueMessage(message)
         /\ UNCHANGED sent

\* A sendToViewer that transmits on the open socket and queues the message
\* as well.
SendToViewerAlsoQueues(message) ==
    IF wsConnection # NoSock /\ readyState[wsConnection] = "OPEN"
    THEN /\ sent' = Append(sent, [sock |-> wsConnection, msg |-> message])
         /\ QueueMessage(message)
    ELSE /\ QueueMessage(message)
         /\ UNCHANGED sent

\* sendToViewer(message)
SendToViewer(message) ==
    IF wsConnection # NoSock /\ readyState[wsConnection] = "OPEN"
    THEN /\ sent' = Append(sent, [sock |-> wsConnection, msg |-> message])
         /\ UNCHANGED <<pendingMessage, dropped>>
    ELSE /\ QueueMessage(message)
         /\ UNCHANGED sent

\* A connection handler that sends the pending message without clearing it.
OnConnectionKeepsPending(ws) ==
    /\ wsConnection' = ws
    /\ IF pendingMessage # NullMessage
       THEN /\ sent' = Append(sent, [sock |-> ws, msg |-> pendingMessage])
            /\ UNCHANGED pendingMessage
       ELSE UNCHANGED <<sent, pendingMessage>>

\* A connection handler that records the socket and leaves the pending
\* message for later.
OnConnectionDefersPending(ws) ==
    /\ wsConnection' = ws
    /\ UNCHANGED <<sent, pendingMessage>>

\* A connection handler that keeps the socket already attached and gives
\* the newcomer the pending message only.
OnConnectionKeepsOld(ws) ==
    /\ wsConnection' = IF wsConnection = NoSock THEN ws ELSE wsConnection
    /\ IF pendingMessage # NullMessage
       THEN /\ sent' = Append(sent, [sock |-> ws, msg |-> pendingMessage])
            /\ pendingMessage' = NullMessage
       ELSE UNCHANGED <<sent, pendingMessage>>

\* viewerWsServer.on("connection", ws => ...): the body of the handler
OnConnection(ws) ==
    /\ wsConnection' = ws
    /\ IF pendingMessage # NullMessage
       THEN /\ sent' = Append(sent, [sock |-> ws, msg |-> pendingMessage])
            /\ pendingMessage' = NullMessage
       ELSE UNCHANGED <<sent, pendingMessage>>

\* A close handler without the identity test.
OnCloseAlwaysClears(ws) == wsConnection' = NoSock

\* ws.on("close", ...): the body of the handler
OnClose(ws) ==
    wsConnection' = IF wsConnection = ws THEN NoSock ELSE wsConnection

\* A browser tab completes the WebSocket handshake with the listening server.
Connect(s) ==
    /\ Serving
    /\ UNCHANGED <<proc, gqlVars, pkce>>
    /\ viewerServerRunning
    /\ readyState[s] = "NEW"
    /\ \A t \in Socks : t < s => readyState[t] # "NEW"    \* tabs are numbered as they connect
    /\ readyState' = [readyState EXCEPT ![s] = "OPEN"]
    /\ OnConnection(s)
    /\ UNCHANGED <<tokVars, ctxVars, viewerServerRunning, port, dropped, nextSeq,
                   rm, au, crashed, authReturnedTrue, ret>>

\* The closing handshake of a socket starts (close frame received or the
\* peer went away): readyState leaves OPEN before the "close" event is emitted.
BeginClose(s) ==
    /\ Serving
    /\ UNCHANGED <<proc, gqlVars, pkce>>
    /\ readyState[s] = "OPEN"
    /\ readyState' = [readyState EXCEPT ![s] = "CLOSING"]
    /\ UNCHANGED <<tokVars, ctxVars, viewerVars, port, sent, dropped, nextSeq,
                   rm, au, crashed, authReturnedTrue, ret>>

\* The "close" event of socket s is emitted.
CloseEvent(s) ==
    /\ Serving
    /\ UNCHANGED <<proc, gqlVars, pkce>>
    /\ readyState[s] \in {"OPEN", "CLOSING"}
    /\ readyState' = [readyState EXCEPT ![s] = "CLOSED"]
    /\ OnClose(s)
    /\ UNCHANGED <<tokVars, ctxVars, viewerServerRunning, pendingMessage, port, sent,
                   dropped, nextSeq, rm, au, crashed, authReturnedTrue, ret>>

\* listen(p): the bind fails when a listener of this process already holds
\* the port, and succeeds or fails (another program holds it) otherwise.
BindOutcomes(p) == IF port[p] = "own" THEN {FALSE} ELSE {TRUE, FALSE}

\* ----------------------------------------------------------- render-model
ModelSentPayload(id, name) ==
    [action |-> "model-sent", elementGroupId |-> id, modelName |-> OrElse(name, "Model")]

\* A context store that writes the id and the name only when a name is given.
StoreModelContextWhenNamed(urn, id, name) ==
    /\ currentElementGroupId' = IF Truthy(name) THEN id ELSE currentElementGroupId
    /\ currentElementGroupName' = IF Truthy(name) THEN name ELSE currentElementGroupName
    /\ currentFileVersionUrn' = urn

\* "Store current model context": the three assignments at the top of the handler
StoreModelContext(urn, id, name) ==
    /\ currentElementGroupId' = id
    /\ currentElementGroupName' = OrElse(name, Null)
    /\ currentFileVersionUrn' = urn

\* startViewerServers(), the synchronous part when the bridge is not running:
\* both servers are created and bound. http.Server.listen reports a failed
\* bind as an "error" event, for which viewerHttpServer has no listener: the
\* event is thrown as an uncaught exception and the process ends. The
\* WebSocket server's "error" and "listening" events have handlers and are
\* delivered later. Neither server is ever closed, so a start that bound the
\* HTTP port is the last one that can: the single record rm holds its call.
StartViewerServers(urn, id, name) ==
    \E httpOk \in BindOutcomes(8080), wsOk \in BindOutcomes(8081) :
        IF httpOk
        THEN /\ port' = [port EXCEPT ![8080] = "own",
                                     ![8081] = IF wsOk THEN "own" ELSE @]
             /\ rm' = [pc |-> "starting", urn |-> urn, id |-> id, name |-> name,
                       seq |-> nextSeq,
                       wsBind |-> IF wsOk THEN "ok" ELSE "fail"]
             /\ UNCHANGED crashed
        ELSE /\ crashed' = TRUE
             /\ UNCHANGED <<port, rm>>

\* A start without the running test: the HTTP server is created and bound
\* again, and the port it already holds refuses the bind (uncaught "error").
StartViewerServersRebinds ==
    /\ crashed' = TRUE
    /\ UNCHANGED <<viewerServerRunning, wsConnection, port, rm>>

\* startViewerServers() when the bridge is running:
\* `if (viewerServerRunning) { resolve(); return; }`
StartViewerServersWhenRunning ==
    UNCHANGED <<viewerServerRunning, wsConnection, port, rm, crashed>>

\* render-model handler, from its entry to its first suspension
RenderModel(urn, id, name) ==
    /\ Serving
    /\ UNCHANGED <<proc, gqlVars, pkce>>
    /\ IF ~Truthy(accessToken)
       THEN /\ ret' = Payload("render-model", NotAuthenticatedError)
            /\ UNCHANGED <<tokVars, ctxVars, viewerVars, port, sockVars, sent, dropped, nextSeq,
                           rm, au, crashed, authReturnedTrue>>
       ELSE /\ nextSeq <= MaxMsgs
            /\ StoreModelContext(urn, id, name)
            /\ nextSeq' = nextSeq + 1
            /\ IF viewerServerRunning
               THEN \* isFirstLoad = false; startViewerServers() resolves at once
                    /\ StartViewerServersWhenRunning
                    /\ SendToViewer(LoadModelMessage(urn, accessToken, nextSeq))
                    /\ ret' = Payload("render-model", ModelSentPayload(id, name))
               ELSE \* isFirstLoad = true
                    /\ StartViewerServers(urn, id, name)
                    /\ UNCHANGED <<viewerVars, sent, dropped, ret>>
            /\ UNCHANGED <<tokVars, sockVars, au, authReturnedTrue>>

\* A first-load continuation that opens the browser without queueing its
\* message.
WsListeningSkipsQueue ==
    /\ Serving
    /\ UNCHANGED <<proc, gqlVars, pkce>>
    /\ rm.pc = "starting" /\ rm.wsBind = "ok"
    /\ viewerServerRunning' = TRUE
    /\ rm' = [rm EXCEPT !.pc = "opening"]
    /\ UNCHANGED <<sent, ret, pendingMessage, dropped>>
    /\ UNCHANGED <<tokVars, ctxVars, wsConnection, port, sockVars, nextSeq, au, crashed,
                   authReturnedTrue>>

\* viewerWsServer.on("listening"): the bridge is Running and start() resolves;
\* the handler continues after `await startViewerServers()` up to `await open(...)`.
\* A call that had to wait for this event found the bridge not running when
\* it began, so it is on its isFirstLoad branch: the message is queued.
WsListening ==
    /\ Serving
    /\ UNCHANGED <<proc, gqlVars, pkce>>
    /\ rm.pc = "starting" /\ rm.wsBind = "ok"
    /\ viewerServerRunning' = TRUE
    /\ QueueMessage(LoadModelMessage(rm.urn, accessToken, rm.seq))
    /\ rm' = [rm EXCEPT !.pc = "opening"]
    /\ UNCHANGED <<sent, ret>>
    /\ UNCHANGED <<tokVars, ctxVars, wsConnection, port, sockVars, nextSeq, au, crashed,
                   authReturnedTrue>>

\* viewerWsServer.on("error"): start() rejects, the handler's catch returns
\* the error payload.
WsError ==
    /\ Serving
    /\ UNCHANGED <<proc, gqlVars, pkce>>
    /\ rm.pc = "starting" /\ rm.wsBind = "fail"
    /\ rm' = IdleCall
    /\ ret' = Payload("render-model", [error |-> "listen EADDRINUSE"])
    /\ UNCHANGED <<tokVars, ctxVars, viewerVars, port, sockVars, sent, dropped, nextSeq, au, crashed,
                   authReturnedTrue>>

\* `await open(url)` settles: the browser was launched, or the launch failed
\* and the catch returns the error payload.
OpenViewerDone(ok) ==
    /\ Serving
    /\ UNCHANGED <<proc, gqlVars, pkce>>
    /\ rm.pc = "opening"
    /\ rm' = IdleCall
    /\ ret' = Payload("render-model",
                      IF ok THEN ModelSentPayload(rm.id, rm.name)
                            ELSE [error |-> "spawn failed"])
    /\ UNCHANGED <<tokVars, ctxVars, viewerVars, port, sockVars, sent, dropped, nextSeq, au, crashed,
                   authReturnedTrue>>

\* ------------------------------------------------------ highlight-elements
\* A highlight-elements handler without its connection guard.
HighlightGuardMissing == FALSE

\* `!viewerServerRunning || !wsConnection`
HighlightNotConnected == ~viewerServerRunning \/ wsConnection = NoSock

HighlightElements(ids) ==
    /\ Serving
    /\ UNCHANGED <<proc, gqlVars, pkce>>
    /\ IF HighlightNotConnected
       THEN /\ ret' = Payload("highlight-elements", ViewerNotConnectedError)
            /\ UNCHANGED <<pendingMessage, sent, dropped, nextSeq>>
       ELSE /\ nextSeq <= MaxMsgs
            /\ SendToViewer(HighlightMessage(ids, nextSeq))
            /\ nextSeq' = nextSeq + 1
            /\ ret' = Payload("highlight-elements", [highlighted |-> Len(ids)])
    /\ UNCHANGED <<tokVars, ctxVars, viewerServerRunning, wsConnection, port, sockVars,
                   rm, au, crashed, authReturnedTrue>>

\* ------------------------------------------------------- get-model-context
GetModelContextResult ==
    IF ~Truthy(currentElementGroupId)
    THEN NoModelLoadedError
    ELSE [elementGroupId |-> currentElementGroupId,
          elementGroupName |-> currentElementGroupName,
          fileVersionUrn |-> currentFileVersionUrn]

GetModelContext ==
    /\ Serving
    /\ UNCHANGED <<proc, gqlVars, pkce>>
    /\ ret' = Payload("get-model-context", GetModelContextResult)
    /\ UNCHANGED <<tokVars, ctxVars, viewerVars, port, sockVars, sent, dropped, nextSeq, rm, au, crashed, authReturnedTrue>>

\* -------------------------------------------------------------- check-auth
CheckAuthResult == [authenticated |-> Truthy(accessToken)]

CheckAuth ==
    /\ Serving
    /\ UNCHANGED <<proc, gqlVars, pkce>>
    /\ ret' = Payload("check-auth", CheckAuthResult)
    /\ UNCHANGED <<tokVars, ctxVars, viewerVars, port, sockVars, sent, dropped, nextSeq, rm, au, crashed, authReturnedTrue>>

\* ------------------------------------------------------------ browse-aecdm
BrowseAecdm ==
    /\ Serving
    /\ UNCHANGED <<proc, gqlVars, pkce>>
    /\ ret' = Payload("browse-aecdm", [action |-> "browse"])
    /\ UNCHANGED <<tokVars, ctxVars, viewerVars, port, sockVars, sent, dropped, nextSeq, rm, au, crashed, authReturnedTrue>>

\* ------------------------------------------------------------ authenticate
\* const chars = "ABC...XYZabc...xyz0123456789"
chars ==
    << "A", "B", "C", "D", "E", "F", "G", "H", "I", "J", "K", "L", "M",
       "N", "O", "P", "Q", "R", "S", "T", "U", "V", "W", "X", "Y", "Z",
       "a", "b", "c", "d", "e", "f", "g", "h", "i", "j", "k", "l", "m",
       "n", "o", "p", "q", "r", "s", "t", "u", "v", "w", "x", "y", "z",
       "0", "1", "2", "3", "4", "5", "6", "7", "8", "9" >>

\* a byte of crypto.randomBytes
Bytes == 0..255

\* bytes at the ends of the ranges that `% chars.length` folds together
SampleBytes == {0, 61, 62, 123, 124, 185, 186, 247, 248, 255}

\* crypto.randomBytes(length): every byte for one character, the sample
\* bytes in every combination for longer verifiers
RandomBytes(length) ==
    IF length = 1 THEN [1..1 -> Bytes] ELSE [1..length -> SampleBytes]

\* generateCodeVerifier(n) entered, randomBytes(n) drawn
VerifierCalls ==
    UNION {{[pc |-> "called", length |-> n, randomValues |-> b] : b \in RandomBytes(n)} :
              n \in 1..MaxVerifierLength}

\* `result += x` for x = chars[k]: the character, or the text "undefined"
\* when k is past the end of chars
Appended(k) ==
    IF k < Len(chars) THEN <<chars[k + 1]>>
    ELSE <<"u", "n", "d", "e", "f", "i", "n", "e", "d">>

\* A verifier loop that reduces the byte modulo 64, the size of the
\* base64url alphabet, and not modulo chars.length.
VerifierLoopMod64(randomValues, length) ==
    LET Loop[j \in 1..(length + 1)] ==
            IF j > length THEN <<>>
            ELSE Appended(randomValues[j] % 64) \o Loop[j + 1]
    IN Loop[1]

\* for (let i = ...; i < length; i++) result += chars[randomValues[i] % chars.length]
\* (counting from 1 here), the string as the sequence of its characters
VerifierLoop(randomValues, length) ==
    LET Loop[j \in 1..(length + 1)] ==
            IF j > length THEN <<>>
            ELSE Appended(randomValues[j] % Len(chars)) \o Loop[j + 1]
    IN Loop[1]

\* generateCodeVerifier(length) for the bytes randomBytes returned
CodeVerifierOf(length, randomValues) == VerifierLoop(randomValues, length)

\* The call returns.
GenerateCodeVerifierReturns ==
    /\ Serving
    /\ pkce.pc = "called"
    /\ pkce' = [pc |-> "returned", length |-> pkce.length,
                randomValues |-> pkce.randomValues,
                result |-> CodeVerifierOf(pkce.length, pkce.randomValues)]
    /\ UNCHANGED <<tokVars, ctxVars, viewerVars, port, sockVars, sent, dropped, nextSeq,
                   rm, au, crashed, authReturnedTrue, ret, proc, gqlVars>>

\* generateCodeVerifier(64): 64 characters drawn from random bytes, so a
\* value other than the one stored before.
GenerateCodeVerifier == CHOOSE v \in Verifiers : v # codeVerifier

AuthPayload(ok, msg) ==
    IF ok THEN [authenticated |-> TRUE] ELSE [authenticated |-> FALSE, error |-> msg]

\* A request handler that looks at `code` before `error`.
CallbackSettlementCodeFirst(req) ==
    IF Truthy(req.code) THEN [state |-> "resolved", code |-> req.code]
    ELSE IF Truthy(req.error)
    THEN [state |-> "rejected", error |-> "OAuth error: " \o req.error]
    ELSE [state |-> "rejected", error |-> "No auth code received"]

\* The request handler of the callback listener settles the promise:
\* `error` wins, then `code`, else "No auth code received".
CallbackSettlement(req) ==
    IF Truthy(req.error) THEN [state |-> "rejected", error |-> "OAuth error: " \o req.error]
    ELSE IF Truthy(req.code) THEN [state |-> "resolved", code |-> req.code]
    ELSE [state |-> "rejected", error |-> "No auth code received"]

TimeoutSettlement == [state |-> "rejected", error |-> "OAuth timeout - no callback received"]

\* A promise nobody will read again keeps no value.
Consumed == [state |-> "settled"]

\* The handler (attempt record at) resumes after `await callbackPromise` with
\* settlement p: with the code it calls exchangeCodeForToken (the POST is
\* issued), a rejection goes to the catch, which returns.
ResumeWith(at, p) ==
    IF p.state = "resolved"
    THEN [at EXCEPT !.pc = "exchanging", !.promise = Consumed] @@ [code |-> p.code]
    ELSE [at EXCEPT !.pc = "returned", !.promise = Consumed]

\* resolve(code) / reject(err) on the attempt's promise, by the request
\* handler or by the timer. Once settled, settling again does nothing. A
\* handler suspended at `await callbackPromise` resumes in the same tick. A
\* rejection before any handler is attached (the call is still at
\* `await open(authUrl)`, or has returned through the catch) is an unhandled
\* rejection, which ends the process.
Settle(p, serverAfter, timerAfter) ==
    LET at == [au EXCEPT !.server = serverAfter, !.timer = timerAfter] IN
    IF au.promise.state # "pending"
    THEN /\ au' = at
         /\ UNCHANGED <<crashed, ret>>
    ELSE IF au.pc = "waiting"
    THEN /\ au' = ResumeWith(at, p)
         /\ ret' = IF p.state = "rejected"
                   THEN Payload("authenticate", AuthPayload(FALSE, p.error))
                   ELSE ret
         /\ UNCHANGED crashed
    ELSE IF p.state = "rejected"
    THEN /\ crashed' = TRUE
         /\ UNCHANGED <<au, ret>>
    ELSE /\ au' = [at EXCEPT !.promise = IF au.pc = "opening" THEN p ELSE Consumed]
         /\ UNCHANGED <<crashed, ret>>

\* authenticate is an app-only tool: the sign-in button that calls it is
\* disabled while a call is in progress, so calls do not overlap.
AuthenticateInFlight == au.pc \in {"opening", "waiting", "exchanging"}

\* A short-circuit that draws a new verifier before it returns.
AuthenticateShortCircuitNewVerifier ==
    /\ ret' = Payload("authenticate", AuthPayload(TRUE, ""))
    /\ authReturnedTrue' = TRUE
    /\ codeVerifier' = GenerateCodeVerifier
    /\ UNCHANGED <<accessToken, refreshToken, port, au, crashed>>

\* `if (accessToken) return {authenticated: true}`
AuthenticateShortCircuit ==
    /\ ret' = Payload("authenticate", AuthPayload(TRUE, ""))
    /\ authReturnedTrue' = TRUE
    /\ UNCHANGED <<tokVars, port, au, crashed>>

\* authenticate handler, from its entry to `await open(authUrl)`. A new
\* attempt takes the place of the previous one in au: what can be left of a
\* returned attempt whose listener is closed is an armed timer that will
\* close a closed listener and reject a settled promise.
Authenticate ==
    /\ Serving
    /\ UNCHANGED <<proc, gqlVars, pkce>>
    /\ IF Truthy(accessToken)
       THEN AuthenticateShortCircuit
       ELSE /\ ~AuthenticateInFlight
            /\ codeVerifier' = GenerateCodeVerifier
            \* waitForOAuthCallback(): callbackServer.listen(5001) has no "error"
            \* listener, so a failed bind is an uncaught exception.
            /\ \E bound \in BindOutcomes(5001) :
                 IF bound
                 THEN /\ port' = [port EXCEPT ![5001] = "own"]
                      /\ au' = [pc |-> "opening", server |-> "listening",
                                promise |-> [state |-> "pending"], timer |-> "armed"]
                      /\ UNCHANGED crashed
                 ELSE /\ crashed' = TRUE
                      /\ UNCHANGED <<port, au>>
            /\ UNCHANGED <<accessToken, refreshToken, authReturnedTrue, ret>>
    /\ UNCHANGED <<ctxVars, viewerVars, sockVars, sent, dropped, nextSeq, rm>>

\* `await open(authUrl)` settles. On success the handler goes on to
\* `await callbackPromise` (and through it, if the promise is already
\* resolved); on failure the catch returns.
AuthOpenDone(ok) ==
    /\ Serving
    /\ UNCHANGED <<proc, gqlVars, pkce>>
    /\ au.pc = "opening"
    /\ IF ok
       THEN /\ au' = IF au.promise.state = "pending"
                     THEN [au EXCEPT !.pc = "waiting"]
                     ELSE ResumeWith(au, au.promise)
            /\ UNCHANGED ret
       ELSE /\ au' = [au EXCEPT !.pc = "returned",
                                !.promise = IF @.state = "pending" THEN @ ELSE Consumed]
            /\ ret' = Payload("authenticate", AuthPayload(FALSE, "spawn failed"))
    /\ UNCHANGED <<tokVars, ctxVars, viewerVars, port, sockVars, sent, dropped, nextSeq, rm,
                   crashed, authReturnedTrue>>

\* A request reaches the callback listener: the handler answers, closes the
\* listener and settles the promise.
CallbackRequest(req) ==
    /\ Serving
    /\ UNCHANGED <<proc, gqlVars, pkce>>
    /\ au.server = "listening"
    /\ Settle(CallbackSettlement(req), "closed", au.timer)
    /\ port' = [port EXCEPT ![5001] = IF crashed' THEN @ ELSE "free"]
    /\ UNCHANGED <<tokVars, ctxVars, viewerVars, sockVars, sent, dropped, nextSeq, rm,
                   authReturnedTrue>>

\* A timer callback that rejects without closing the listener.
OAuthTimeoutLeavesListening ==
    /\ Serving
    /\ UNCHANGED <<proc, gqlVars, pkce>>
    /\ au.timer = "armed"
    /\ Settle(TimeoutSettlement, au.server, "fired")
    /\ UNCHANGED <<tokVars, ctxVars, viewerVars, port, sockVars, sent, dropped, nextSeq, rm,
                   authReturnedTrue>>

\* The 5-minute timer fires: callbackServer.close(); reject(...).
OAuthTimeout ==
    /\ Serving
    /\ UNCHANGED <<proc, gqlVars, pkce>>
    /\ au.timer = "armed"
    /\ Settle(TimeoutSettlement, IF au.server = "listening" THEN "closed" ELSE au.server,
              "fired")
    /\ port' = [port EXCEPT ![5001] = IF au.server = "listening" /\ ~crashed'
                                      THEN "free" ELSE @]
    /\ UNCHANGED <<tokVars, ctxVars, viewerVars, sockVars, sent, dropped, nextSeq, rm,
                   authReturnedTrue>>

\* exchangeCodeForToken: does the call return a token object (TRUE) or throw?
ExchangeReturns(resp) == resp.kind = "json"

ExchangeErrorMessage(resp) ==
    CASE resp.kind = "network-error" -> "fetch failed"
      [] resp.kind = "http-error"    -> "Token exchange failed: <body>"
      [] OTHER                       -> "Unexpected token in JSON"

\* The token request is answered; the handler stores the tokens and returns,
\* or its catch returns the failure.
ExchangeDone(resp) ==
    /\ Serving
    /\ UNCHANGED <<proc, gqlVars, pkce>>
    /\ au.pc = "exchanging"
    /\ au' = [pc |-> "returned", server |-> au.server, promise |-> Consumed,
              timer |-> au.timer]
    /\ IF ExchangeReturns(resp)
       THEN /\ accessToken' = resp.access_token
            /\ refreshToken' = resp.refresh_token
            /\ ret' = Payload("authenticate", AuthPayload(TRUE, ""))
            /\ authReturnedTrue' = TRUE
       ELSE /\ ret' = Payload("authenticate", AuthPayload(FALSE, ExchangeErrorMessage(resp)))
            /\ UNCHANGED <<accessToken, refreshToken, authReturnedTrue>>
    /\ UNCHANGED <<codeVerifier, ctxVars, viewerVars, port, sockVars, sent, dropped, nextSeq, rm, crashed>>

\* ------------------------------------------------------------ graphqlQuery
Thrown(msg) == [threw |-> TRUE, message |-> msg]

\* A proxy that treats a GraphQL error list as a failure of the call.
GraphqlQueryThrowsOnErrors(resp) ==
    CASE resp.kind = "network-error" -> Thrown("fetch failed")
      [] resp.kind = "http-error"    -> Thrown("API returned 500: <body>")
      [] resp.kind = "bad-json"      -> Thrown("Unexpected token < in JSON")
      [] resp.errorsPresent /\ Len(resp.errors) > 0 -> Thrown(resp.errors[1].message)
      [] OTHER -> [threw |-> FALSE, data |-> resp.data,
                   errorsPresent |-> resp.errorsPresent, errors |-> resp.errors,
                   hasErrors |-> FALSE]

\* graphqlQuery from the answer of its fetch on: throws, or returns
\* {data, errors, hasErrors}.
GraphqlQuery(resp) ==
    CASE resp.kind = "network-error" -> Thrown("fetch failed")
      [] resp.kind = "http-error"    -> Thrown("API returned 500: <body>")
      [] resp.kind = "bad-json"      -> Thrown("Unexpected token < in JSON")
      [] OTHER -> [threw |-> FALSE, data |-> resp.data,
                   errorsPresent |-> resp.errorsPresent, errors |-> resp.errors,
                   hasErrors |-> resp.errorsPresent /\ Len(resp.errors) > 0]

\* {message: e.message, correlationId: e.extensions?.correlationId} as
\* JSON.stringify writes it: an undefined member is left out.
Warning(e) ==
    IF e.correlationId = Undefined THEN [message |-> e.message]
    ELSE [message |-> e.message, correlationId |-> e.correlationId]

Warnings(errors) == [i \in 1..Len(errors) |-> Warning(errors[i])]

\* {error: errors?.[0]?.message || "Unknown error", correlationId: ...}
FirstErrorPayload(errors) ==
    LET e == errors[1] IN
    IF e.correlationId = Undefined THEN [error |-> OrElse(e.message, "Unknown error")]
    ELSE [error |-> OrElse(e.message, "Unknown error"), correlationId |-> e.correlationId]

\* A handler that treats every error list as fatal, data or no data.
GetToolPayloadPartialIsFatal(result) ==
    IF result.threw THEN [error |-> result.message]
    ELSE IF result.hasErrors THEN FirstErrorPayload(result.errors)
    ELSE result.data

\* The payload of get-hubs, get-projects, get-element-groups and
\* get-elements-by-category for an outcome of graphqlQuery.
GetToolPayload(result) ==
    IF result.threw THEN [error |-> result.message]
    ELSE IF result.hasErrors /\ TruthyValue(result.data)
    THEN result.data @@ ("_warnings" :> Warnings(result.errors))
    ELSE IF result.hasErrors THEN FirstErrorPayload(result.errors)
    ELSE result.data

\* The payload of execute-query for an outcome of graphqlQuery.
ExecuteQueryPayload(result) ==
    IF result.threw THEN [errors |-> <<[message |-> result.message]>>]
    ELSE IF TruthyValue(result.data) /\ result.hasErrors
    THEN [data |-> result.data, errors |-> Warnings(result.errors)]
    ELSE IF TruthyValue(result.data) THEN [data |-> result.data]
    ELSE IF result.hasErrors THEN [errors |-> Warnings(result.errors)]
    ELSE [t |-> "object"]

ToolPayload(tool, result) ==
    IF tool = "execute-query" THEN ExecuteQueryPayload(result) ELSE GetToolPayload(result)

\* A handler whose graphqlQuery sends the request before it looks at the token.
GqlCallFetchesFirst(tool, variables) ==
    /\ Serving
    /\ gq = IdleQuery
    /\ upstream < MaxRequests
    /\ upstream' = upstream + 1
    /\ gq' = [pc |-> "fetching", tool |-> tool]
    /\ UNCHANGED <<tokVars, ctxVars, viewerVars, port, sockVars, sent, dropped, nextSeq,
                   rm, au, crashed, authReturnedTrue, proc, ret, pkce>>

\* A GraphQL-backed tool handler from its entry to the fetch of graphqlQuery:
\* execute-query parses its variables first; graphqlQuery throws without a
\* token; otherwise the request is sent.
GqlCall(tool, variables) ==
    /\ Serving
    /\ gq = IdleQuery
    /\ IF tool = "execute-query" /\ Truthy(variables) /\ JsonParseThrows(variables)
       THEN /\ ret' = Payload(tool, ToolPayload(tool, Thrown("Unexpected token b in JSON")))
            /\ UNCHANGED gqlVars
       ELSE IF ~Truthy(accessToken)
       THEN /\ ret' = Payload(tool, ToolPayload(tool, Thrown("Not authenticated")))
            /\ UNCHANGED gqlVars
       ELSE /\ upstream < MaxRequests
            /\ upstream' = upstream + 1
            /\ gq' = [pc |-> "fetching", tool |-> tool]
            /\ UNCHANGED ret
    /\ UNCHANGED <<tokVars, ctxVars, viewerVars, port, sockVars, sent, dropped, nextSeq,
                   rm, au, crashed, authReturnedTrue, proc, pkce>>

\* The fetch settles: graphqlQuery returns or throws and the handler maps
\* the outcome to its payload.
GqlResponse(resp) ==
    /\ Serving
    /\ gq.pc = "fetching"
    /\ ret' = Payload(gq.tool, ToolPayload(gq.tool, GraphqlQuery(resp)))
    /\ gq' = IdleQuery
    /\ UNCHANGED <<tokVars, ctxVars, viewerVars, port, sockVars, sent, dropped, nextSeq,
                   rm, au, crashed, authReturnedTrue, proc, upstream, pkce>>

Next ==
    \/ \E a \in RenderArgs : RenderModel(a[1], a[2], a[3])
    \/ WsListening
    \/ WsError
    \/ \E ok \in BOOLEAN : OpenViewerDone(ok)
    \/ \E s \in Socks : Connect(s)
    \/ \E s \in Socks : BeginClose(s)
    \/ \E s \in Socks : CloseEvent(s)
    \/ \E ids \in IdLists : HighlightElements(ids)
    \/ GetModelContext
    \/ CheckAuth
    \/ BrowseAecdm
    \/ Authenticate
    \/ \E ok \in BOOLEAN : AuthOpenDone(ok)
    \/ \E req \in CallbackRequests : CallbackRequest(req)
    \/ OAuthTimeout
    \/ \E resp \in TokenResponses : ExchangeDone(resp)

Spec == Init /\ [][Next]_vars

\* The sign-in flow on its own: the authenticate and check-auth tools and the
\* events of the callback listener, with no viewer tool called. The 5-minute
\* timer set by waitForOAuthCallback fires if the process lives that long.
AuthNext ==
    \/ Authenticate
    \/ \E ok \in BOOLEAN : AuthOpenDone(ok)
    \/ \E req \in CallbackRequests : CallbackRequest(req)
    \/ OAuthTimeout
    \/ \E resp \in TokenResponses : ExchangeDone(resp)
    \/ CheckAuth

AuthSpec == Init /\ [][AuthNext]_vars /\ WF_vars(OAuthTimeout)

\* The GraphQL-backed tools together with the sign-in flow that gives them
\* their token.
GqlNext ==
    \/ AuthNext
    \/ \E c \in GqlCalls : GqlCall(c[1], c[2])
    \/ \E resp \in UpstreamResponses : GqlResponse(resp)

GqlSpec == Init /\ [][GqlNext]_vars

\* The server from the moment the host spawns it.
BootNext == Startup \/ Next

BootSpec == BootInit /\ [][BootNext]_vars

\* generateCodeVerifier on its own: one call per behaviour, its length and
\* random bytes drawn at the start.
VerifierInit ==
    /\ Constructed
    /\ proc = ServingProcess
    /\ pkce \in VerifierCalls

VerifierNext == GenerateCodeVerifierReturns

VerifierSpec == VerifierInit /\ [][VerifierNext]_vars

\* ================================================================ properties
\* Everything but `ret`: what a call that only reports must leave alone.
exceptRet == <<accessToken, refreshToken, codeVerifier,
               currentElementGroupId, currentElementGroupName, currentFileVersionUrn,
               viewerServerRunning, wsConnection, pendingMessage,
               port, readyState, sent, dropped, nextSeq, rm, au, crashed,
               authReturnedTrue, proc, gq, upstream, pkce>>

\* The step is the handshake of socket s completing.
Connects(s) == readyState[s] = "NEW" /\ readyState'[s] = "OPEN"

\* render-model's last returned payload is a success ("model-sent")
RenderModelSucceeded ==
    ret.tool = "render-model" /\ "action" \in DOMAIN ret.payload

\* The context a render-model call with these arguments is specified to leave.
ContextOf(urn, id, name) ==
    [elementGroupId |-> id,
     elementGroupName |-> IF name = Undefined THEN Null ELSE name,
     fileVersionUrn |-> urn]

\* C1: a message pending when a socket connects is transmitted to that socket
\* in that step, exactly it and nothing else, and pendingMessage is empty
\* afterwards; a pending message leaves pendingMessage only by being delivered
\* or overwritten; no message is ever transmitted twice, and a transmitted
\* message is not pending any more.
C1_PendingDeliveredOnce ==
    [][/\ \A s \in Socks :
            (Connects(s) /\ pendingMessage # NullMessage) =>
                /\ sent' = Append(sent, [sock |-> s, msg |-> pendingMessage])
                /\ pendingMessage' = NullMessage
       /\ (pendingMessage # NullMessage /\ pendingMessage' = NullMessage) =>
                (\E s \in Socks : Connects(s))
       /\ \A i, j \in DOMAIN sent' : sent'[i].msg = sent'[j].msg => i = j
       /\ \A i \in DOMAIN sent' : sent'[i].msg # pendingMessage']_vars

\* C1 witness: the first-load message (number 1) was queued, delivered to
\* the first socket, and a second socket has connected since without a
\* second transmission.
C1_Witness ==
    /\ Len(sent) = 1
    /\ sent[1].sock = 1 /\ sent[1].msg.seq = 1 /\ sent[1].msg.type = "load-model"
    /\ readyState[2] = "OPEN"
    /\ pendingMessage = NullMessage

\* C2: pendingMessage holds at most one message; a message overwritten while
\* pending is never transmitted on any socket; the pending message is the
\* most recently submitted one (every overwritten message was submitted
\* before it).
C2_LastWriteWins ==
    /\ pendingMessage = NullMessage \/ pendingMessage.type \in {"load-model", "highlight"}
    /\ \A i \in DOMAIN sent : sent[i].msg.seq \notin dropped
    /\ pendingMessage # NullMessage =>
          /\ pendingMessage.seq \notin dropped
          /\ \A d \in dropped : d < pendingMessage.seq

\* C2 witness: message 1 was queued, message 2 overwrote it before any socket
\* connected, and the first socket to connect received message 2 only.
C2_Witness ==
    /\ dropped = {1}
    /\ Len(sent) = 1
    /\ sent[1].sock = 1 /\ sent[1].msg.seq = 2
    /\ pendingMessage = NullMessage

\* C3: no fault of an external step (a port that cannot be bound, a browser
\* that cannot be launched, a rejected or timed-out callback, a bad upstream
\* answer) escapes a tool invocation: the process is never terminated.
C3_NoFaultEscapes == ~crashed

\* C4: a highlight-elements call either transmits its highlight message on
\* the attached socket or returns the viewer-not-connected error; in both
\* cases it leaves pendingMessage unchanged.
C4_HighlightNeverQueues ==
    [][(\E ids \in IdLists : HighlightElements(ids)) =>
          /\ pendingMessage' = pendingMessage
          /\ \/ /\ Len(sent') = Len(sent) + 1
                /\ sent'[Len(sent')].sock = wsConnection
                /\ sent'[Len(sent')].msg.type = "highlight"
             \/ /\ sent' = sent
                /\ ret'.payload =
                      [error |-> "Viewer is not connected. Please render a model first."]]_vars

\* C5: highlight-elements invoked while the viewer bridge is not running finds
\* no socket attached, returns the viewer-not-connected error payload and
\* changes nothing else: nothing is transmitted or queued, the process goes
\* on, the running flag, the socket and the model context are as before.
C5_HighlightBeforeRender ==
    [][\A ids \in IdLists :
          (HighlightElements(ids) /\ ~viewerServerRunning) =>
              /\ wsConnection = NoSock
              /\ ret' = [tool |-> "highlight-elements",
                         payload |-> [error |->
                            "Viewer is not connected. Please render a model first."]]
              /\ UNCHANGED exceptRet]_vars

\* C5 witness: the error was returned with the bridge never started and no
\* message ever built.
C5_Witness ==
    /\ ret.tool = "highlight-elements" /\ "error" \in DOMAIN ret.payload
    /\ ~viewerServerRunning /\ rm = IdleCall /\ nextSeq = 1
    /\ pendingMessage = NullMessage

\* C6: when an authenticated render-model call follows one made with a
\* different fileVersionUrn, get-model-context then returns the three fields
\* of this latest call (the name absent if the call omitted it).
C6_LatestContextOnly ==
    [][\A a \in RenderArgs :
          (/\ RenderModel(a[1], a[2], a[3])
           /\ Truthy(accessToken)
           /\ currentFileVersionUrn # Null /\ currentFileVersionUrn # a[1]
           /\ ~crashed') =>
              GetModelContextResult' = ContextOf(a[1], a[2], a[3])]_vars

\* C7 (as stated): in every state that follows a successful render-model
\* call the three context fields are all present or all absent.
C7_AllOrNothing ==
    RenderModelSucceeded =>
        \/ /\ currentElementGroupId # Null
           /\ currentElementGroupName # Null
           /\ currentFileVersionUrn # Null
        \/ /\ currentElementGroupId = Null
           /\ currentElementGroupName = Null
           /\ currentFileVersionUrn = Null

\* C7 (amended): in every reachable state elementGroupId and fileVersionUrn
\* are both present or both absent, and elementGroupName is present only if
\* they are.
C7_IdAndUrnTogether ==
    /\ currentElementGroupId = Null <=> currentFileVersionUrn = Null
    /\ currentElementGroupName # Null => currentElementGroupId # Null

\* C7 witness: a render-model call that omitted the name has succeeded; the
\* id and the urn are present and the name is absent.
C7_Witness ==
    /\ RenderModelSucceeded
    /\ ret.payload.modelName = "Model"
    /\ currentElementGroupId = "eg2" /\ currentFileVersionUrn = "urn:b"
    /\ currentElementGroupName = Null

\* C8: get-model-context changes no state; before any render-model call has
\* stored a context it returns the error that says to use browse-aecdm first;
\* called right after a render-model call has returned success, it returns
\* the context that call stored.
C8_ContextOrBrowseFirst ==
    [][GetModelContext =>
          /\ UNCHANGED exceptRet
          /\ currentElementGroupId = Null =>
                ret'.payload = [error |->
                   "No model is currently loaded. Use browse-aecdm to select and load a model first."]
          /\ (RenderModelSucceeded /\ ret.payload.elementGroupId = currentElementGroupId) =>
                ret'.payload = [elementGroupId |-> currentElementGroupId,
                                elementGroupName |-> currentElementGroupName,
                                fileVersionUrn |-> currentFileVersionUrn]]_vars

\* C9: render-model invoked while no access token is present returns
\* {error: "Not authenticated"} and changes nothing else: the model context,
\* the running flag, the socket, pendingMessage, the ports bound and the
\* calls in flight are as before.
C9_RenderRequiresAuth ==
    [][\A a \in RenderArgs :
          (RenderModel(a[1], a[2], a[3]) /\ accessToken \in {Null, Undefined, EmptyStr}) =>
              /\ ret' = [tool |-> "render-model",
                         payload |-> [error |-> "Not authenticated"]]
              /\ UNCHANGED exceptRet]_vars

\* C9 witness: the error has been returned, with no context stored and the
\* bridge not started.
C9_Witness ==
    /\ ret.tool = "render-model" /\ ret.payload = [error |-> "Not authenticated"]
    /\ currentElementGroupId = Null /\ ~viewerServerRunning /\ port[8080] = "free"

\* C10: check-auth returns authenticated=false as long as no authenticate
\* call has returned authenticated=true, and authenticated=true once one has.
C10_CheckAuthFollowsAuthenticate ==
    ret.tool = "check-auth" => ret.payload = [authenticated |-> authReturnedTrue]

\* C11: when a step of an authenticate call in progress fails (the browser
\* cannot be launched, the callback is a rejection, the countdown expires,
\* the token exchange does not return a token object), the call returns
\* {authenticated: false, error}, the process goes on, the call is over (the
\* step is not tried again) and accessToken and refreshToken are unchanged.
C11_FailureIsReported ==
    [][(/\ AuthenticateInFlight
        /\ \/ AuthOpenDone(FALSE)
           \/ \E req \in CallbackRequests :
                 /\ CallbackRequest(req)
                 /\ au.promise.state = "pending"
                 /\ CallbackSettlement(req).state = "rejected"
           \/ OAuthTimeout /\ au.promise.state = "pending"
           \/ \E resp \in TokenResponses :
                 ExchangeDone(resp) /\ resp.kind # "json") =>
          /\ ~crashed'
          /\ ret'.tool = "authenticate"
          /\ ret'.payload.authenticated = FALSE
          /\ "error" \in DOMAIN ret'.payload
          /\ au'.pc = "returned"
          /\ UNCHANGED <<accessToken, refreshToken>>]_vars

\* C12: authenticate invoked while an access token is present returns
\* {authenticated: true} and changes nothing: the verifier, the tokens, the
\* callback listener and its port, the attempt record (no browser launch, no
\* token request) and all the rest of the state are as before.
C12_ShortCircuit ==
    [][(Authenticate /\ accessToken \notin {Null, Undefined, EmptyStr}) =>
          /\ ret' = [tool |-> "authenticate", payload |-> [authenticated |-> TRUE]]
          /\ UNCHANGED <<accessToken, refreshToken, codeVerifier,
                         currentElementGroupId, currentElementGroupName,
                         currentFileVersionUrn, viewerServerRunning, wsConnection,
                         pendingMessage, port, readyState, sent, dropped, nextSeq,
                         rm, au, crashed>>]_vars

\* C12 witness: after the sign-in and a render-model call that has returned,
\* a second authenticate returned true at once: the stored verifier is still
\* the one of the single attempt made, whose listener is closed and whose
\* port is free.
C12_Witness ==
    /\ ret = [tool |-> "authenticate", payload |-> [authenticated |-> TRUE]]
    /\ accessToken = "tokA" /\ codeVerifier = "verifier-A"
    /\ au.pc = "returned" /\ au.server = "closed" /\ port[5001] = "free"
    /\ viewerServerRunning /\ rm = IdleCall

\* C14: once the bridge is Running it stays Running (so it becomes Running
\* at most once), and a render-model call made while it is Running starts
\* nothing: no port is bound, no start is left in progress, the process goes
\* on, the recorded socket is unchanged, and pendingMessage changes only if
\* sendToViewer queues the message this call built.
C14_StartIdempotent ==
    [][/\ viewerServerRunning => viewerServerRunning'
       /\ \A a \in RenderArgs :
            (/\ RenderModel(a[1], a[2], a[3])
             /\ accessToken \notin {Null, Undefined, EmptyStr}
             /\ viewerServerRunning) =>
                /\ ~crashed'
                /\ port' = port /\ rm' = rm
                /\ wsConnection' = wsConnection
                /\ \/ pendingMessage' = pendingMessage
                   \/ /\ pendingMessage'.type = "load-model"
                      /\ pendingMessage'.seq = nextSeq
                      /\ sent' = sent]_vars

\* C14 witness: a second render-model call found the bridge Running and sent
\* its message straight to the open socket; both ports are still held by
\* the one start.
C14_Witness ==
    /\ viewerServerRunning /\ rm = IdleCall /\ ~crashed
    /\ Len(sent) = 2 /\ sent[2].msg.type = "load-model" /\ sent[2].msg.seq = 2
    /\ port[8080] = "own" /\ port[8081] = "own"
    /\ ret.tool = "render-model"

\* C15: the bridge is Running only when both the HTTP port and the
\* WebSocket port are held by listeners of this process; a start whose bind
\* of either port fails does not end the process and leaves the bridge not
\* Running, and the failure of the WebSocket bind is returned by render-model
\* as an error payload.
C15_RunningNeedsBothListeners ==
    [][/\ viewerServerRunning' => (port'[8080] = "own" /\ port'[8081] = "own")
       /\ \A a \in RenderArgs :
            (/\ RenderModel(a[1], a[2], a[3])
             /\ accessToken \notin {Null, Undefined, EmptyStr}
             /\ ~viewerServerRunning) =>
                (~crashed' /\ ~viewerServerRunning')
       /\ WsError =>
            /\ ~viewerServerRunning'
            /\ ret'.tool = "render-model" /\ "error" \in DOMAIN ret'.payload]_vars

\* The promise of the current run of the callback listener is settled.
ListenerSettled == au.promise.state \notin {"none", "pending"}

\* What one step may do to a run of the callback listener.
ListenerStep ==
    \* a request closes the listener and frees its port, whatever it carries
    /\ \A req \in CallbackRequests :
          (CallbackRequest(req) /\ ~crashed') =>
              /\ au'.server = "closed" /\ port'[5001] = "free"
              /\ au'.promise.state \notin {"none", "pending"}
    \* the expiry of the countdown closes it too
    /\ (OAuthTimeout /\ ~crashed') =>
          /\ au'.server = "closed" /\ port'[5001] = "free"
          /\ au'.promise.state \notin {"none", "pending"}
    \* the first event decides what the waiting caller is told
    /\ (OAuthTimeout /\ au.promise.state = "pending" /\ au.pc = "waiting") =>
          ret' = [tool |-> "authenticate",
                  payload |-> [authenticated |-> FALSE,
                               error |-> "OAuth timeout - no callback received"]]
    /\ \A req \in CallbackRequests :
          (CallbackRequest(req) /\ au.promise.state = "pending" /\ au.pc = "waiting") =>
              \/ au'.pc = "exchanging"
              \/ /\ ret'.tool = "authenticate"
                 /\ ret'.payload.authenticated = FALSE
                 /\ ret'.payload.error # "OAuth timeout - no callback received"
    \* an event that comes after the settlement changes no outcome
    /\ ((OAuthTimeout \/ \E req \in CallbackRequests : CallbackRequest(req))
          /\ ListenerSettled) =>
              /\ ~crashed' /\ ret' = ret /\ au'.pc = au.pc
              /\ au'.promise = au.promise
              /\ UNCHANGED <<accessToken, refreshToken>>
    \* a settled run stays settled; only a new authenticate call starts a run
    /\ (ListenerSettled /\ au'.promise.state = "pending") =>
          (au'.pc = "opening" /\ codeVerifier' # codeVerifier)
    \* in every terminal state the listener is closed
    /\ ListenerSettled' => au'.server = "closed"

FirstCallback(req) ==
    CallbackRequest(req) /\ au.promise.state = "pending" /\ au.pc = "waiting"

\* The caller got the code: it has gone on to the token exchange with it.
CallerGotCode(code) == au'.pc = "exchanging" /\ au'.code = code

\* The caller got a failure with this message.
CallerGotError(msg) ==
    /\ au'.pc = "returned"
    /\ ret' = [tool |-> "authenticate",
               payload |-> [authenticated |-> FALSE, error |-> msg]]

NotAuthenticatedPayload(tool) ==
    IF tool = "execute-query" THEN [errors |-> <<[message |-> "Not authenticated"]>>]
    ELSE NotAuthenticatedError

\* C13 as stated: a GraphQL-backed tool invoked while no access token is
\* present sends no upstream request and returns "Not authenticated"
\* (get-* tools as {error}, execute-query inside its errors list).
C13_NotAuthenticatedAlways ==
    [][\A c \in GqlCalls :
          (GqlCall(c[1], c[2]) /\ ~Truthy(accessToken))
          => /\ upstream' = upstream
             /\ gq' = IdleQuery
             /\ ret' = Payload(c[1], NotAuthenticatedPayload(c[1]))]_vars

\* C13 amended: without a token no GraphQL-backed tool sends an upstream
\* request; the tool returns "Not authenticated" unless it is execute-query
\* called with a `variables` text that is not JSON, which returns the parse
\* failure inside its errors list instead.
C13_NoTokenNoRequest ==
    [][\A c \in GqlCalls :
          (GqlCall(c[1], c[2]) /\ ~Truthy(accessToken))
          => /\ upstream' = upstream
             /\ gq' = IdleQuery
             /\ ret'.tool = c[1]
             /\ IF c[1] = "execute-query" /\ Truthy(c[2]) /\ JsonParseThrows(c[2])
                THEN /\ DOMAIN ret'.payload = {"errors"}
                     /\ Len(ret'.payload.errors) = 1
                     /\ ret'.payload.errors[1].message # "Not authenticated"
                ELSE ret'.payload = NotAuthenticatedPayload(c[1])]_vars

\* Witness: execute-query, called with well-formed variables and no token,
\* has returned "Not authenticated" and no request was ever sent.
C13_Witness ==
    /\ ret = Payload("execute-query", NotAuthenticatedPayload("execute-query"))
    /\ ~Truthy(accessToken)
    /\ upstream = 0 /\ gq = IdleQuery

\* ---------------------------------------------------------------- C18
\* response.ok: the status is 2xx, whatever the body
HttpSuccess(resp) == resp.kind \in {"bad-json", "json"}

\* a 2xx answer whose body is a JSON object
JsonBody(resp) == resp.kind = "json"

HasErrorList(resp) == resp.errorsPresent /\ resp.errors # <<>>

\* the errors member of a payload repeats the answer's errors in order
SameErrors(payload, resp) ==
    /\ "errors" \in DOMAIN payload
    /\ Len(payload.errors) = Len(resp.errors)
    /\ \A i \in 1..Len(resp.errors) : payload.errors[i].message = resp.errors[i].message

\* execute-query: data and errors when the answer has both, errors without
\* data when it has only errors
ExecuteQueryReturns(payload, resp) ==
    HasErrorList(resp)
    => /\ SameErrors(payload, resp)
       /\ IF TruthyValue(resp.data)
          THEN "data" \in DOMAIN payload /\ payload.data = resp.data
          ELSE "data" \notin DOMAIN payload

ProxyPassesThrough(resp, tool, r) ==
    LET q == GraphqlQuery(resp) IN
    /\ ~q.threw
    /\ q.data = resp.data
    /\ q.hasErrors <=> HasErrorList(resp)
    /\ tool = "execute-query" => ExecuteQueryReturns(r.payload, resp)

\* C18 as stated: for every answer with a success status graphqlQuery does
\* not throw, hands data on unchanged and sets hasErrors exactly when the
\* errors list is non-empty, and execute-query returns data with errors, or
\* errors alone, accordingly.
C18_SuccessNeverThrows ==
    [][\A resp \in UpstreamResponses :
          (GqlResponse(resp) /\ HttpSuccess(resp))
          => ProxyPassesThrough(resp, gq.tool, ret')]_vars

\* C18 amended: the same, for every answer with a success status whose body
\* is a JSON object.
C18_JsonSuccessNeverThrows ==
    [][\A resp \in UpstreamResponses :
          (GqlResponse(resp) /\ JsonBody(resp))
          => ProxyPassesThrough(resp, gq.tool, ret')]_vars

\* Witness: execute-query has returned the data and the error list of an
\* answer that carried both.
C18_Witness ==
    /\ ret = Payload("execute-query",
                     [data |-> SomeData,
                      errors |-> <<[message |-> "m1", correlationId |-> "cid-1"]>>])
    /\ upstream > 0 /\ gq = IdleQuery

\* ---------------------------------------------------------------- C19
\* entry i of a list written by the tool is {message, correlationId} of error e
EntryOf(entry, e) ==
    /\ entry.message = e.message
    /\ IF e.correlationId = Undefined THEN "correlationId" \notin DOMAIN entry
       ELSE "correlationId" \in DOMAIN entry /\ entry.correlationId = e.correlationId

\* the failure graphqlQuery throws for an answer that is no JSON object
ThrownMessage(resp) ==
    CASE resp.kind = "network-error" -> "fetch failed"
      [] resp.kind = "http-error"    -> "API returned 500: <body>"
      [] OTHER                       -> "Unexpected token < in JSON"

GetToolMapping(payload, resp) ==
    IF resp.kind # "json" THEN payload = [error |-> ThrownMessage(resp)]
    ELSE IF HasErrorList(resp) /\ TruthyValue(resp.data)
    THEN /\ DOMAIN payload = DOMAIN resp.data \cup {"_warnings"}
         /\ \A f \in DOMAIN resp.data : payload[f] = resp.data[f]
         /\ Len(payload["_warnings"]) = Len(resp.errors)
         /\ \A i \in 1..Len(resp.errors) : EntryOf(payload["_warnings"][i], resp.errors[i])
    ELSE IF HasErrorList(resp)
    THEN /\ DOMAIN payload \subseteq {"error", "correlationId"}
         /\ payload.error = resp.errors[1].message
         /\ IF resp.errors[1].correlationId = Undefined
            THEN "correlationId" \notin DOMAIN payload
            ELSE payload.correlationId = resp.errors[1].correlationId
    ELSE payload = resp.data

NothingStarted ==
    /\ \A p \in Ports : port[p] = "free"
    /\ proc.stdio = "unconnected"
    /\ ~viewerServerRunning /\ au = IdleAttempt /\ rm = IdleCall /\ gq = IdleQuery
    /\ ret = Payload("none", [none |-> TRUE])
    /\ sent = <<>> /\ upstream = 0

\* C20: with CLIENT_ID unset the process writes a diagnostic to stderr and
\* exits with a non-zero status, before any listener (stdio, callback port,
\* viewer HTTP and WebSocket ports) is bound and before any tool runs; an
\* exited process does nothing more.
C20_NoClientIdExits ==
    /\ [](proc.phase \in {"loading", "exited"} => NothingStarted)
    /\ [][/\ (proc.phase = "loading" /\ ~Truthy(proc.clientId))
             => /\ proc'.phase = "exited"
                /\ proc'.exitCode # 0
                /\ Len(proc'.stderr) > 0
          /\ proc.phase # "exited"]_vars

\* Witness: started without CLIENT_ID, the process has exited with status 1
\* after its diagnostic.
C20_Witness ==
    /\ proc.phase = "exited" /\ proc.clientId = Undefined
    /\ proc.exitCode = 1
    /\ proc.stderr = <<"ERROR: CLIENT_ID environment variable is required">>
    /\ NothingStarted

\* ---------------------------------------------------------------- C21
UpperCase == {"A", "B", "C", "D", "E", "F", "G", "H", "I", "J", "K", "L", "M", "N", "O", "P", "Q", "R", "S", "T", "U", "V", "W", "X", "Y", "Z"}
LowerCase == {"a", "b", "c", "d", "e", "f", "g", "h", "i", "j", "k", "l", "m", "n", "o", "p", "q", "r", "s", "t", "u", "v", "w", "x", "y", "z"}
Digits    == {"0", "1", "2", "3", "4", "5", "6", "7", "8", "9"}
VerifierAlphabet == UpperCase \cup LowerCase \cup Digits

\* C21: generateCodeVerifier(n), n >= 1, returns exactly n characters, each
\* of them in A-Z, a-z, 0-9, whatever the random bytes.
C21_VerifierLengthAndAlphabet ==
    pkce.pc = "returned"
    => /\ Len(pkce.result) = pkce.length
       /\ \A i \in 1..Len(pkce.result) : pkce.result[i] \in VerifierAlphabet

\* Witness: the bytes 255 and 62, both past the end of chars, gave "HA".
C21_Witness ==
    /\ pkce.pc = "returned"
    /\ pkce.randomValues = <<255, 62>>
    /\ pkce.result = <<"H", "A">>

\* ---------------------------------------------------------------- C22
\* The step transmits a message on socket s.
Transmitted(s) == Len(sent') > Len(sent) /\ sent'[Len(sent')].sock = s

\* Socket s has connected and is not the active socket (any more).
Replaced(s) == readyState[s] # "NEW" /\ wsConnection # s

\* C22: a socket that connects while another is attached becomes the active
\* socket and the old one is not closed by the server; from then on nothing
\* is transmitted on the old socket, which never becomes active again; a
\* transmission goes to the socket that is active after the step; at most
\* one socket is recorded as active.
C22_NewSocketReplaces ==
    [][/\ \A s \in Socks :
            (Connects(s) /\ wsConnection # NoSock)
            => /\ wsConnection' = s
               /\ readyState'[wsConnection] = readyState[wsConnection]
       /\ \A s \in Socks : Replaced(s) => (~Transmitted(s) /\ wsConnection' # s)
       /\ \A s \in Socks : Transmitted(s) => wsConnection' = s
       /\ wsConnection' \in Socks \cup {NoSock}]_vars

\* Witness: both sockets are open, the second one is active, and the message
\* sent after it connected went to it while the first had received the
\* earlier one.
C22_Witness ==
    /\ readyState[1] = "OPEN" /\ readyState[2] = "OPEN"
    /\ wsConnection = 2
    /\ Len(sent) = 2
    /\ sent[1].sock = 1 /\ sent[2].sock = 2

\* ---------------------------------------------------------------- C23
\* The step is the "close" event of socket s.
Closes(s) == readyState[s] # "CLOSED" /\ readyState'[s] = "CLOSED"

\* C23: the close event of socket s clears wsConnection when s is the
\* active socket and only then; the close of a socket that is not active
\* leaves wsConnection and pendingMessage as they were; so wsConnection
\* never refers to a socket whose close event has been processed.
C23_CloseClearsOnlyActive ==
    /\ [](wsConnection # NoSock => readyState[wsConnection] # "CLOSED")
    /\ [][\A s \in Socks :
             Closes(s)
             => IF wsConnection = s
                THEN wsConnection' = NoSock
                ELSE wsConnection' = wsConnection /\ pendingMessage' = pendingMessage]_vars

\* Witness: the first socket was replaced by the second and then closed;
\* the second is still the active socket.
C23_Witness ==
    /\ readyState[1] = "CLOSED"
    /\ readyState[2] = "OPEN"
    /\ wsConnection = 2

\* ---------------------------------------------------------------- C24
\* The step calls sendToViewer: render-model with the bridge running, or
\* highlight-elements past its guard. The message it passes has the number
\* nextSeq.
SendStep == viewerServerRunning /\ nextSeq' = nextSeq + 1

SentType == IF ret'.tool = "render-model" THEN "load-model" ELSE "highlight"

ContextIs(urn, id, name) ==
    /\ currentElementGroupId = id
    /\ currentElementGroupName = OrElse(name, Null)
    /\ currentFileVersionUrn = urn

\* The step passes load-model message m to sendToViewer.
PassedToSend(m) ==
    IF wsConnection # NoSock /\ readyState[wsConnection] = "OPEN"
    THEN sent' = Append(sent, [sock |-> wsConnection, msg |-> m]) /\ pendingMessage' = pendingMessage
    ELSE sent' = sent /\ pendingMessage' = m

\* C25: an authenticated render-model call stores the context and then
\* branches on viewerServerRunning as found at entry. Not running: it starts
\* the bridge and transmits nothing; when the start has succeeded it puts
\* its load-model message in pendingMessage and goes on to open the browser,
\* still transmitting nothing. Running: it passes its load-model message to
\* sendToViewer, returns, and opens no browser. The browser is opened by
\* the call that started the bridge only.
C25_FirstLoadQueuesThenOpens ==
    [][/\ \A a \in RenderArgs :
            (RenderModel(a[1], a[2], a[3]) /\ Truthy(accessToken))
            => /\ ContextIs(a[1], a[2], a[3])'
               /\ IF viewerServerRunning
                  THEN /\ PassedToSend(LoadModelMessage(a[1], accessToken, nextSeq))
                       /\ rm' = rm
                       /\ port' = port
                       /\ ret' = Payload("render-model", ModelSentPayload(a[2], a[3]))
                  ELSE /\ sent' = sent /\ pendingMessage' = pendingMessage
                       /\ ret' = ret
                       /\ crashed' \/ (rm'.pc = "starting" /\ rm'.urn = a[1])
       /\ (~viewerServerRunning /\ viewerServerRunning')
            => /\ rm.pc = "starting"
               /\ pendingMessage' = LoadModelMessage(rm.urn, accessToken, rm.seq)
               /\ sent' = sent
               /\ rm' = [rm EXCEPT !.pc = "opening"]
       /\ (rm.pc # "opening" /\ rm'.pc = "opening") => (~viewerServerRunning /\ viewerServerRunning')
       /\ (rm.pc = "opening" /\ rm'.pc # "opening") => sent' = sent]_vars

\* Witness: the call that started the bridge has queued its message, sent
\* nothing, and is opening the browser.
C25_Witness ==
    /\ rm.pc = "opening"
    /\ viewerServerRunning
    /\ pendingMessage = LoadModelMessage(rm.urn, accessToken, rm.seq)
    /\ sent = <<>> /\ wsConnection = NoSock
    /\ ContextIs(rm.urn, rm.id, rm.name)

\* ---------------------------------------------------------------- C26
\* The bridge is running and the active socket has disconnected: its close
\* event ("Viewer WebSocket client disconnected") has cleared wsConnection.
ActiveDisconnected ==
    /\ viewerServerRunning
    /\ wsConnection = NoSock
    /\ \E s \in Socks : readyState[s] = "CLOSED"

\* C26: once the active socket has disconnected, an authenticated
\* render-model call returns the model-sent payload and only stores its
\* load-model message in pendingMessage; nothing is transmitted until a new
\* socket connects, which receives the pending message; and the queued
\* load-model message leaves pendingMessage only by that delivery or by a
\* later render-model call, so that the latest one is what the new socket gets.
C26_QueuedUntilReconnect ==
    [][ActiveDisconnected
       => /\ \A a \in RenderArgs :
               (RenderModel(a[1], a[2], a[3]) /\ Truthy(accessToken))
               => /\ ret' = Payload("render-model", ModelSentPayload(a[2], a[3]))
                  /\ sent' = sent
                  /\ pendingMessage' = LoadModelMessage(a[1], accessToken, nextSeq)
          /\ sent' # sent
               => \E s \in Socks :
                     Connects(s) /\ sent' = Append(sent, [sock |-> s, msg |-> pendingMessage])
          /\ (pendingMessage.type = "load-model" /\ pendingMessage' # pendingMessage)
               => \/ \E s \in Socks : Connects(s)
                  \/ /\ pendingMessage'.type = "load-model"
                     /\ pendingMessage'.seq > pendingMessage.seq]_vars

\* Witness: the tab was closed and its close event handled; the render-model
\* call made since returned model-sent and its message is pending,
\* transmitted nowhere.
C26_Witness ==
    /\ ActiveDisconnected
    /\ readyState[1] = "CLOSED" /\ readyState[2] = "NEW"
    /\ RenderModelSucceeded
    /\ pendingMessage.type = "load-model" /\ pendingMessage.seq = 2
    /\ Len(sent) = 1 /\ sent[1].msg.seq = 1

\* ---------------------------------------------------------------- C27
\* The step is an event of the attempt's listener or timer.
AttemptEvent == (\E req \in CallbackRequests : CallbackRequest(req)) \/ OAuthTimeout

\* C27: once an authenticate call has returned, whatever the outcome of its
\* steps, its callback listener no longer listens on the callback port, and
\* a later event of the attempt (a late callback request, the timer) does
\* not end the process with a rejection nobody handles.
C27_NothingLeftAfterReturn ==
    /\ [](au.pc = "returned" => (au.server # "listening" /\ port[5001] = "free"))
    /\ [][(au.pc = "returned" /\ AttemptEvent) => ~crashed']_vars

\* ---------------------------------------------------------------- C28
\* C28: a message is pending only while no socket is recorded as active or
\* the recorded one is not open.
C28_PendingOnlyWithoutOpenSocket ==
    pendingMessage # NullMessage
    => (wsConnection = NoSock \/ readyState[wsConnection] # "OPEN")

\* Witness: a message is pending while a socket is still recorded as active,
\* that socket being on its way to closed.
C28_Witness ==
    /\ pendingMessage # NullMessage
    /\ wsConnection # NoSock
    /\ readyState[wsConnection] = "CLOSING"

\* ---------------------------------------------------------------- C29
\* The step is the return of the suspended render-model call with an error
\* payload (the viewer start or the browser launch failed), no other
\* render-model call having run since it began.
RenderModelFails ==
    /\ rm.pc \in {"starting", "opening"}
    /\ rm' = IdleCall
    /\ ret'.tool = "render-model" /\ "error" \in DOMAIN ret'.payload
    /\ rm.seq + 1 = nextSeq

\* C29: when render-model returns an error payload because the viewer start
\* or the browser launch failed, get-model-context then returns the
\* elementGroupId, name and fileVersionUrn of that failed call.
C29_ContextKeptOnFailure ==
    [][RenderModelFails
       => GetModelContextResult' = ContextOf(rm.urn, rm.id, rm.name)]_vars

\* ---------------------------------------------------------------- C30
\* The step is an authenticated render-model call that finds the bridge not
\* running: startViewerServers creates both servers and calls listen on both
\* viewer ports.
BindsViewerPorts ==
    /\ \E a \in RenderArgs : RenderModel(a[1], a[2], a[3])
    /\ Truthy(accessToken)
    /\ ~viewerServerRunning

\* C30: each viewer listener is created and bound at most once per process:
\* no render-model call binds a viewer port that a listener of this process
\* already holds, nor starts the servers again while an earlier start is
\* waiting for its listeners.
C30_ViewerPortsBoundOnce ==
    [][BindsViewerPorts
       => /\ port[8080] # "own" /\ port[8081] # "own"
          /\ rm.pc # "starting"]_vars

====
